---- MODULE Spec2Model ----
(***************************************************************************)
(* geprotocol: extract or compare the parameters of the GE MRI protocol    *)
(* data block stored in DICOM private element (0025,101b).                 *)
(*                                                                         *)
(* Strings are sequences of one-character strings, so that the regular     *)
(* expressions, str.splitlines and print are modelled character by         *)
(* character.  A Python dict is a sequence of <<key, value>> pairs with    *)
(* distinct keys, in insertion order.  The only line boundary of the       *)
(* model's alphabet is "\n"; the only whitespace that can occur inside a   *)
(* line is the blank and the tab.                                          *)
(***************************************************************************)
EXTENDS Integers, Sequences, FiniteSets, TLC

VARIABLES
    algorithm,    \* args.algorithm: "json" | "diff" ("none": a direct call of a function)
    disk,         \* the files behind args.d / args.j / args.r / args.t
    pc,           \* position in main, or in the direct call
    ds,           \* main's local ds (json branch): <<>> before dcmread, <<dataset>> after
    protocol_r,   \* main's local protocol_r / diff_protocols' r: <<>> unset, <<dict>> set
    protocol_t,   \* main's local protocol_t / diff_protocols' t
    stdout,       \* the lines printed so far
    stderr,       \* the messages written to standard error so far
    exit,         \* the exit status of the process, -1 while it runs
    trace,        \* the functions main has called so far, in order
    s,            \* the text handed to str_to_dict_dicom / str_to_dict_lx
    src,          \* the lines s was composed of
    result        \* what the parser call returned or raised

vars == <<algorithm, disk, pc, ds, protocol_r, protocol_t, stdout, stderr,
          exit, trace, s, src, result>>

-----------------------------------------------------------------------------
(* Bounds *)

MaxLines == 3        \* lines of a text handed to a parser
MaxEntries == 2      \* entries of a mapping handed to diff_protocols
MaxFileLines == 2    \* lines of the protocol text stored in a file

-----------------------------------------------------------------------------
(* Characters *)

\* \w restricted to the model's alphabet
Word == {"A", "B", "C", "D", "1", "2", "3", "_", "s", "e", "t", "x"}

\* \s restricted to what can occur inside a line
Space == {" ", "\t"}

QUOTE == "\""

NL == "\n"

-----------------------------------------------------------------------------
(* dict *)

Keys(d) == {d[i][1] : i \in DOMAIN d}

HasKey(d, k) == \E i \in DOMAIN d : d[i][1] = k

Get(d, k) == d[CHOOSE i \in DOMAIN d : d[i][1] = k][2]

\* d[k] = v, always appending: loses the overwrite of an existing key
DictSetAppend(d, k, v) == Append(d, <<k, v>>)

\* d[k] = v: an existing key keeps its position and takes the new value
DictSet(d, k, v) ==
    IF HasKey(d, k)
    THEN [i \in DOMAIN d |-> IF d[i][1] = k THEN <<k, v>> ELSE d[i]]
    ELSE Append(d, <<k, v>>)

-----------------------------------------------------------------------------
(* str.splitlines and re.match *)

RECURSIVE SplitAcc(_, _, _, _)
SplitAcc(text, i, cur, acc) ==
    IF i > Len(text)
    THEN IF cur = <<>> THEN acc ELSE Append(acc, cur)
    ELSE IF text[i] = NL
         THEN SplitAcc(text, i + 1, <<>>, Append(acc, cur))
         ELSE SplitAcc(text, i + 1, Append(cur, text[i]), acc)

\* s.splitlines(): a final line boundary opens no further line
splitlines(text) == SplitAcc(text, 1, <<>>, <<>>)

RECURSIVE WordRun(_, _)
\* the length of the longest run of \w characters of line from position i
WordRun(line, i) ==
    IF i <= Len(line) /\ line[i] \in Word THEN 1 + WordRun(line, i + 1) ELSE 0

RECURSIVE FindQuote(_, _)
\* the position of the first double quote of line at or after i, 0 if none
FindQuote(line, i) ==
    IF i > Len(line) THEN 0
    ELSE IF line[i] = QUOTE THEN i ELSE FindQuote(line, i + 1)

NoMatch == [matched |-> FALSE, g1 |-> <<>>, g2 |-> <<>>]

\* (\w+)\s"(.*?)" anchored at position start of line.  \w+ is greedy, and since
\* the \s that follows is not a \w, it can only stand after the whole run.
MatchPair(line, start) ==
    LET n  == WordRun(line, start)
        sp == start + n
        q1 == sp + 1
        q2 == FindQuote(line, q1 + 1)
    IN  IF /\ n >= 1
           /\ q1 <= Len(line)
           /\ line[sp] \in Space
           /\ line[q1] = QUOTE
           /\ q2 > 0
        THEN [matched |-> TRUE,
              g1 |-> SubSeq(line, start, sp - 1),
              g2 |-> SubSeq(line, q1 + 1, q2 - 1)]
        ELSE NoMatch

\* re.match(r'(\w+)\s"(.*?)"', line)
re_match_dicom(line) == MatchPair(line, 1)

\* re.match(r'\s\s\s\sset\s(\w+)\s"(.*?)"', line)
re_match_lx(line) ==
    IF /\ Len(line) >= 8
       /\ \A i \in 1..4 : line[i] \in Space
       /\ line[5] = "s" /\ line[6] = "e" /\ line[7] = "t"
       /\ line[8] \in Space
    THEN MatchPair(line, 9)
    ELSE NoMatch

-----------------------------------------------------------------------------
(* The two parsers.  A call either returns (ret = <<d>>) or raises            *)
(* AttributeError at line number `line` (m is None, m.group fails).          *)

Returned(d) == [raised |-> FALSE, ret |-> <<d>>, line |-> 0]

Raised(i) == [raised |-> TRUE, ret |-> <<>>, line |-> i]

RECURSIVE DicomLoopSkip(_, _, _)
\* the loop with a guard `if m is None: continue`
DicomLoopSkip(lines, i, d) ==
    IF i > Len(lines) THEN Returned(d)
    ELSE LET m == re_match_dicom(lines[i])
         IN  IF ~m.matched THEN DicomLoopSkip(lines, i + 1, d)
             ELSE DicomLoopSkip(lines, i + 1, DictSet(d, m.g1, m.g2))

RECURSIVE DicomLoop(_, _, _)
DicomLoop(lines, i, d) ==
    IF i > Len(lines) THEN Returned(d)
    ELSE LET m == re_match_dicom(lines[i])
         IN  IF ~m.matched THEN Raised(i)
             ELSE DicomLoop(lines, i + 1, DictSet(d, m.g1, m.g2))

RECURSIVE LxLoop(_, _, _)
LxLoop(lines, i, d) ==
    IF i > Len(lines) THEN Returned(d)
    ELSE LET m == re_match_lx(lines[i])
         IN  IF ~m.matched THEN Raised(i)
             ELSE LxLoop(lines, i + 1, DictSet(d, m.g1, m.g2))

str_to_dict_dicom(text) == DicomLoop(splitlines(text), 1, <<>>)

str_to_dict_lx(text) == LxLoop(splitlines(text), 1, <<>>)

-----------------------------------------------------------------------------
(* print and diff_protocols *)

LT == <<"<">>

GT == <<">">>

SEP == <<"-", "-", "-">>

RECURSIVE JoinArgs(_, _)
JoinArgs(args, i) ==
    IF i > Len(args) THEN <<>>
    ELSE IF i = Len(args) THEN args[i]
         ELSE args[i] \o <<" ">> \o JoinArgs(args, i + 1)

\* print(*args): the line written, the arguments separated by one blank
print(args) == JoinArgs(args, 1)

\* the first loop printing a record for every key of r, equal or not
RECURSIVE RefLoopNoCompare(_, _, _)
RefLoopNoCompare(r, t, i) ==
    IF i > Len(r) THEN <<>>
    ELSE LET k == r[i][1]
             v == r[i][2]
             out == IF HasKey(t, k)
                    THEN <<print(<<LT, k, v>>), print(<<GT, k, Get(t, k)>>), print(<<SEP>>)>>
                    ELSE <<print(<<LT, k, v>>), print(<<GT>>), print(<<SEP>>)>>
         IN  out \o RefLoopNoCompare(r, t, i + 1)

\* the first loop without its else branch: a key missing from t prints nothing
RECURSIVE RefLoopNoRemoved(_, _, _)
RefLoopNoRemoved(r, t, i) ==
    IF i > Len(r) THEN <<>>
    ELSE LET k == r[i][1]
             v == r[i][2]
             out == IF HasKey(t, k) /\ v # Get(t, k)
                    THEN <<print(<<LT, k, v>>), print(<<GT, k, Get(t, k)>>), print(<<SEP>>)>>
                    ELSE <<>>
         IN  out \o RefLoopNoRemoved(r, t, i + 1)

\* for k, v in r.items(): the lines the first loop prints from entry i on
RECURSIVE RefLoop(_, _, _)
RefLoop(r, t, i) ==
    IF i > Len(r) THEN <<>>
    ELSE LET k == r[i][1]
             v == r[i][2]
             out == IF HasKey(t, k)
                    THEN IF v # Get(t, k)
                         THEN <<print(<<LT, k, v>>), print(<<GT, k, Get(t, k)>>), print(<<SEP>>)>>
                         ELSE <<>>
                    ELSE <<print(<<LT, k, v>>), print(<<GT>>), print(<<SEP>>)>>
         IN  out \o RefLoop(r, t, i + 1)

\* the second loop printing the key on the "<" line as well
RECURSIVE TestLoopKeyOnBoth(_, _, _)
TestLoopKeyOnBoth(r, t, i) ==
    IF i > Len(t) THEN <<>>
    ELSE LET k == t[i][1]
             v == t[i][2]
             out == IF ~HasKey(r, k)
                    THEN <<print(<<LT, k>>), print(<<GT, k, v>>), print(<<SEP>>)>>
                    ELSE <<>>
         IN  out \o TestLoopKeyOnBoth(r, t, i + 1)

\* for k, v in t.items(): the lines the second loop prints from entry i on
RECURSIVE TestLoop(_, _, _)
TestLoop(r, t, i) ==
    IF i > Len(t) THEN <<>>
    ELSE LET k == t[i][1]
             v == t[i][2]
             out == IF ~HasKey(r, k)
                    THEN <<print(<<LT>>), print(<<GT, k, v>>), print(<<SEP>>)>>
                    ELSE <<>>
         IN  out \o TestLoop(r, t, i + 1)

\* the two loops in the opposite order
diff_protocols_test_first(r, t) == TestLoop(r, t, 1) \o RefLoop(r, t, 1)

\* everything diff_protocols(r, t) prints
diff_protocols(r, t) == RefLoop(r, t, 1) \o TestLoop(r, t, 1)

-----------------------------------------------------------------------------
(* Files, datasets and extract_protocol *)

\* the private element (0x25, 0x101B) holding the protocol data block
PrivateTag == <<37, 4123>>

\* StudyDate (0008,0020), an element every dataset of the model holds
StudyDateTag == <<8, 32>>

\* the 4 byte header used by GE: b"Q\x03\x00\x00"
Header == <<"Q", "x03", "x00", "x00">>

\* the two magic bytes a gzip stream starts with
GzipMagic == <<"x1f", "x8b">>

\* gzip.compress(text.encode()): the bytes of a gzip stream, the deflated body
\* standing for the text it inflates to
gzip_compress(text) == GzipMagic \o text

\* gzip.decompress(data).decode(): raises BadGzipFile unless data is a gzip stream
gzip_decompress(data) ==
    IF Len(data) >= 2 /\ SubSeq(data, 1, 2) = GzipMagic
    THEN [raised |-> FALSE, ret |-> <<SubSeq(data, 3, Len(data))>>]
    ELSE [raised |-> TRUE, ret |-> <<>>]

MissingElementMsg ==
    "DICOM file does not contain private element (0025,101b), exiting\n"

\* how a call made by main ends: "return" (ret = <<value>>), "exit" (sys.exit(code)
\* after writing err to stderr) or "raise" (an exception named err, never caught)
Return(v) == [how |-> "return", ret |-> <<v>>, err |-> "", code |-> 0]

SysExit(msg, c) == [how |-> "exit", ret |-> <<>>, err |-> msg, code |-> c]

Raise(exc) == [how |-> "raise", ret |-> <<>>, err |-> exc, code |-> 1]

\* extract_protocol returning an empty dict when the element is missing
extract_protocol_lenient(dataset) ==
    IF PrivateTag \notin DOMAIN dataset
    THEN Return(<<>>)
    ELSE LET protocol_raw == dataset[PrivateTag]
             decoded == gzip_decompress(SubSeq(protocol_raw, 5, Len(protocol_raw)))
         IN  IF decoded.raised THEN Raise("BadGzipFile")
             ELSE LET parsed == str_to_dict_dicom(decoded.ret[1])
                  IN  IF parsed.raised THEN Raise("AttributeError")
                      ELSE Return(parsed.ret[1])

extract_protocol(dataset) ==
    IF PrivateTag \notin DOMAIN dataset
    THEN SysExit(MissingElementMsg, 1)
    ELSE LET protocol_raw == dataset[PrivateTag]
             decoded == gzip_decompress(SubSeq(protocol_raw, 5, Len(protocol_raw)))
         IN  IF decoded.raised THEN Raise("BadGzipFile")
             ELSE LET parsed == str_to_dict_dicom(decoded.ret[1])
                  IN  IF parsed.raised THEN Raise("AttributeError")
                      ELSE Return(parsed.ret[1])

\* A file: kind "dicom" (data = the dataset), "text" (data = its characters)
\* or "absent" (no such path)
DicomFile(dataset) == [kind |-> "dicom", data |-> dataset]

TextFile(text) == [kind |-> "text", data |-> text]

AbsentFile == [kind |-> "absent", data |-> <<>>]

\* pydicom.misc.is_dicom(path): the file carries the DICOM preamble and prefix
is_dicom(file) == file.kind = "dicom"

\* pydicom.dcmread(path, stop_before_pixels=True)
dcmread(file) ==
    IF file.kind = "dicom" THEN Return(file.data) ELSE Raise("InvalidDicomError")

\* json.dump(d, f, indent=0): the characters written
RECURSIVE JsonItems(_, _)
JsonItems(d, i) ==
    IF i > Len(d) THEN <<>>
    ELSE <<NL, QUOTE>> \o d[i][1] \o <<QUOTE, ":", " ", QUOTE>> \o d[i][2] \o <<QUOTE>>
         \o (IF i < Len(d) THEN <<",">> ELSE <<NL>>) \o JsonItems(d, i + 1)

json_dump(d) == IF d = <<>> THEN <<"{", "}">> ELSE <<"{">> \o JsonItems(d, 1) \o <<"}">>

-----------------------------------------------------------------------------
(* Inputs *)

\* a line of the form PARAMETER "value", followed by tail
LineA(n, v, tail) ==
    [dialect |-> "A", name |-> n, value |-> v,
     text |-> n \o <<" ", QUOTE>> \o v \o <<QUOTE>> \o tail]

\* a line of the form `    set PARAMETER "value"`, followed by tail
LineB(n, v, tail) ==
    [dialect |-> "B", name |-> n, value |-> v,
     text |-> <<" ", " ", " ", " ", "s", "e", "t", " ">> \o n \o <<" ", QUOTE>> \o v
              \o <<QUOTE>> \o tail]

\* a line of neither form
OtherLine(text) == [dialect |-> "none", name |-> <<>>, value |-> <<>>, text |-> text]

RECURSIVE TextFrom(_, _, _)
TextFrom(ls, i, term) ==
    IF i > Len(ls) THEN <<>>
    ELSE ls[i].text \o (IF i < Len(ls) \/ term THEN <<NL>> ELSE <<>>)
         \o TextFrom(ls, i + 1, term)

\* the text whose lines are ls, with a final line boundary iff term
TextOf(ls, term) == TextFrom(ls, 1, term)

SeqsUpTo(L, n) == UNION {[1..k -> L] : k \in 0..n}

\* the lines the texts handed to the parsers are composed of
ParseLines ==
    { LineA(<<"A">>, <<"1">>, <<>>),
      LineA(<<"A">>, <<"2", " ", "x">>, <<" ", "x">>),
      LineA(<<"B", "_", "1">>, <<>>, <<>>),
      LineB(<<"A">>, <<"1">>, <<>>),
      LineB(<<"A">>, <<"2", " ", "x">>, <<" ", "x">>),
      LineB(<<"B", "_", "1">>, <<>>, <<>>),
      OtherLine(<<>>),
      OtherLine(<<"A", " ", "1">>),
      OtherLine(<<" ", " ", " ", "s", "e", "t", " ", "A", " ", QUOTE, "1", QUOTE>>) }

DiffKeys == {<<"A">>, <<"B">>, <<"C">>, <<"D">>}

DiffValues == {<<"1">>, <<"2">>}

\* the dicts of at most n entries over DiffKeys and DiffValues
Mappings(n) ==
    {m \in SeqsUpTo(DiffKeys \X DiffValues, n) :
        \A i, j \in DOMAIN m : m[i][1] = m[j][1] => i = j}

FileLinesA ==
    { LineA(<<"A">>, <<"1">>, <<>>), LineA(<<"A">>, <<"2">>, <<>>),
      LineA(<<"B">>, <<"1">>, <<>>), OtherLine(<<"A", " ", "1">>) }

FileLinesB ==
    { LineB(<<"A">>, <<"1">>, <<>>), LineB(<<"A">>, <<"2">>, <<>>),
      LineB(<<"B">>, <<"1">>, <<>>), OtherLine(<<"A", " ", "1">>) }

StudyDate == <<"2", "0", "2", "2", "0", "1", "0", "1">>

\* a dataset whose private element holds the GE header and the gzipped text
DatasetWith(text) ==
    (StudyDateTag :> StudyDate) @@ (PrivateTag :> (Header \o gzip_compress(text)))

\* a dataset without the private element
DatasetBare == (StudyDateTag :> StudyDate)

\* a dataset whose private element holds no gzip stream after the header
DatasetCorrupt == (StudyDateTag :> StudyDate) @@ (PrivateTag :> (Header \o <<"x00">>))

InputFiles ==
    {DicomFile(DatasetWith(TextOf(ls, FALSE))) : ls \in SeqsUpTo(FileLinesA, MaxFileLines)}
    \cup {DicomFile(DatasetBare), DicomFile(DatasetCorrupt)}
    \cup {TextFile(TextOf(ls, FALSE)) : ls \in SeqsUpTo(FileLinesB, MaxFileLines)}

\* what the output path holds before the run
OutputFiles == {AbsentFile, TextFile(<<"{", "}">>)}

-----------------------------------------------------------------------------
(* main *)

Idle ==
    /\ ds = <<>> /\ protocol_r = <<>> /\ protocol_t = <<>>
    /\ stdout = <<>> /\ stderr = <<>> /\ exit = -1 /\ trace = <<>>

Init ==
    /\ algorithm \in {"json", "diff"}
    /\ \E f \in InputFiles :
          \/ /\ algorithm = "json"
             /\ \E o \in OutputFiles : disk = ("d" :> f) @@ ("j" :> o)
          \/ /\ algorithm = "diff"
             /\ \E g \in InputFiles : disk = ("r" :> f) @@ ("t" :> g)
    /\ pc = "main"
    /\ Idle
    /\ s = <<>> /\ src = <<>> /\ result = <<>>

\* the process ends on sys.exit(code) or on an exception nobody catches
Terminate(e) ==
    /\ pc' = "done"
    /\ exit' = e.code
    /\ stderr' = Append(stderr, e.err)

Call(fn, arg) == <<fn, arg>>

Called(fn, arg) == \E i \in DOMAIN trace : trace[i] = Call(fn, arg)

\* ds = pydicom.dcmread(args.d, stop_before_pixels=True)
JsonRead ==
    /\ pc = "main" /\ algorithm = "json"
    /\ trace' = Append(trace, Call("dcmread", "d"))
    /\ LET e == dcmread(disk["d"])
       IN  IF e.how = "return"
           THEN /\ ds' = <<e.ret[1]>>
                /\ pc' = "json_open"
                /\ UNCHANGED <<stderr, exit>>
           ELSE /\ Terminate(e)
                /\ UNCHANGED ds
    /\ UNCHANGED <<algorithm, disk, protocol_r, protocol_t, stdout, s, src, result>>

\* with open(args.j, "w") as f: creates the file, or truncates it
JsonOpen ==
    /\ pc = "json_open"
    /\ disk' = [disk EXCEPT !["j"] = TextFile(<<>>)]
    /\ pc' = "json_dump"
    /\ trace' = Append(trace, Call("open", "j"))
    /\ UNCHANGED <<algorithm, ds, protocol_r, protocol_t, stdout, stderr, exit, s, src,
                   result>>

\* json.dump(extract_protocol(ds), f, indent=0), and leaving the with block
JsonDump ==
    /\ pc = "json_dump"
    /\ trace' = Append(trace, Call("extract_protocol", "d"))
    /\ LET e == extract_protocol(ds[1])
       IN  IF e.how = "return"
           THEN /\ disk' = [disk EXCEPT !["j"] = TextFile(json_dump(e.ret[1]))]
                /\ pc' = "done"
                /\ exit' = 0
                /\ UNCHANGED stderr
           ELSE /\ Terminate(e)
                /\ UNCHANGED disk
    /\ UNCHANGED <<algorithm, ds, protocol_r, protocol_t, stdout, s, src, result>>

\* the sniffing that takes every reference file for a container
DiffSniffAlwaysContainer ==
    /\ pc = "main" /\ algorithm = "diff"
    /\ trace' = Append(trace, Call("is_dicom", "r"))
    /\ pc' = "diff_ref_dicom"
    /\ UNCHANGED <<algorithm, disk, ds, protocol_r, protocol_t, stdout, stderr, exit, s,
                   src, result>>

\* if pydicom.misc.is_dicom(args.r): ... else: ...
DiffSniff ==
    /\ pc = "main" /\ algorithm = "diff"
    /\ trace' = Append(trace, Call("is_dicom", "r"))
    /\ pc' = IF is_dicom(disk["r"]) THEN "diff_ref_dicom" ELSE "diff_ref_lx"
    /\ UNCHANGED <<algorithm, disk, ds, protocol_r, protocol_t, stdout, stderr, exit, s,
                   src, result>>

\* ds_r = pydicom.dcmread(args.r, ...); protocol_r = extract_protocol(ds_r)
DiffRefDicom ==
    /\ pc = "diff_ref_dicom"
    /\ LET f == dcmread(disk["r"])
           e == IF f.how = "return" THEN extract_protocol(f.ret[1]) ELSE f
       IN  /\ trace' = trace \o (IF f.how = "return"
                                 THEN <<Call("dcmread", "r"), Call("extract_protocol", "r")>>
                                 ELSE <<Call("dcmread", "r")>>)
           /\ IF e.how = "return"
              THEN /\ protocol_r' = <<e.ret[1]>>
                   /\ pc' = "diff_test"
                   /\ UNCHANGED <<stderr, exit>>
              ELSE /\ Terminate(e)
                   /\ UNCHANGED protocol_r
    /\ UNCHANGED <<algorithm, disk, ds, protocol_t, stdout, s, src, result>>

\* with open(args.r, "r") as f: protocol_r = str_to_dict_lx(f.read())
DiffRefLx ==
    /\ pc = "diff_ref_lx"
    /\ trace' = Append(trace, Call("str_to_dict_lx", "r"))
    /\ LET p == str_to_dict_lx(disk["r"].data)
       IN  IF ~p.raised
           THEN /\ protocol_r' = <<p.ret[1]>>
                /\ pc' = "diff_test"
                /\ UNCHANGED <<stderr, exit>>
           ELSE /\ Terminate(Raise("AttributeError"))
                /\ UNCHANGED protocol_r
    /\ UNCHANGED <<algorithm, disk, ds, protocol_t, stdout, s, src, result>>

\* ds_t = pydicom.dcmread(args.t, ...); protocol_t = extract_protocol(ds_t)
DiffTest ==
    /\ pc = "diff_test"
    /\ LET f == dcmread(disk["t"])
           e == IF f.how = "return" THEN extract_protocol(f.ret[1]) ELSE f
       IN  /\ trace' = trace \o (IF f.how = "return"
                                 THEN <<Call("dcmread", "t"), Call("extract_protocol", "t")>>
                                 ELSE <<Call("dcmread", "t")>>)
           /\ IF e.how = "return"
              THEN /\ protocol_t' = <<e.ret[1]>>
                   /\ pc' = "diff_print"
                   /\ UNCHANGED <<stderr, exit>>
              ELSE /\ Terminate(e)
                   /\ UNCHANGED protocol_t
    /\ UNCHANGED <<algorithm, disk, ds, protocol_r, stdout, s, src, result>>

\* diff_protocols(protocol_r, protocol_t), and main returns
DiffPrint ==
    /\ pc = "diff_print"
    /\ trace' = Append(trace, Call("diff_protocols", "r,t"))
    /\ stdout' = stdout \o diff_protocols(protocol_r[1], protocol_t[1])
    /\ pc' = "done"
    /\ exit' = 0
    /\ UNCHANGED <<algorithm, disk, ds, protocol_r, protocol_t, stderr, s, src, result>>

Next ==
    \/ JsonRead
    \/ JsonOpen
    \/ JsonDump
    \/ DiffSniff
    \/ DiffRefDicom
    \/ DiffRefLx
    \/ DiffTest
    \/ DiffPrint

Spec == Init /\ [][Next]_vars

-----------------------------------------------------------------------------
(* Direct calls of the parsers *)

InitParse ==
    /\ algorithm = "none" /\ disk = <<>> /\ Idle
    /\ pc = "call"
    /\ src \in SeqsUpTo(ParseLines, MaxLines)
    /\ \E term \in BOOLEAN :
          \* a text ends without a line boundary only after a non-empty line
          /\ ~term => (src # <<>> /\ src[Len(src)].text # <<>>)
          /\ s = TextOf(src, term)
    /\ result = <<>>

CallStrToDictDicom ==
    /\ pc = "call"
    /\ result' = <<"A", str_to_dict_dicom(s)>>
    /\ pc' = "returned"
    /\ UNCHANGED <<algorithm, disk, ds, protocol_r, protocol_t, stdout, stderr, exit,
                   trace, s, src>>

CallStrToDictLx ==
    /\ pc = "call"
    /\ result' = <<"B", str_to_dict_lx(s)>>
    /\ pc' = "returned"
    /\ UNCHANGED <<algorithm, disk, ds, protocol_r, protocol_t, stdout, stderr, exit,
                   trace, s, src>>

NextParse == CallStrToDictDicom \/ CallStrToDictLx

SpecParse == InitParse /\ [][NextParse]_vars

-----------------------------------------------------------------------------
(* Direct calls of diff_protocols *)

InitDiff ==
    /\ algorithm = "none" /\ disk = <<>>
    /\ ds = <<>> /\ stdout = <<>> /\ stderr = <<>> /\ exit = -1 /\ trace = <<>>
    /\ pc = "call"
    /\ \E r \in Mappings(MaxEntries) : protocol_r = <<r>>
    /\ \E t \in Mappings(MaxEntries) : protocol_t = <<t>>
    /\ s = <<>> /\ src = <<>> /\ result = <<>>

CallDiffProtocols ==
    /\ pc = "call"
    /\ stdout' = stdout \o diff_protocols(protocol_r[1], protocol_t[1])
    /\ pc' = "returned"
    /\ UNCHANGED <<algorithm, disk, ds, protocol_r, protocol_t, stderr, exit, trace, s,
                   src, result>>

NextDiff == CallDiffProtocols

SpecDiff == InitDiff /\ [][NextDiff]_vars

-----------------------------------------------------------------------------
(* Properties of the json and diff subcommands (Spec) *)

\* the file is a container that does not hold element (0025,101b)
LacksElement(file) == file.kind = "dicom" /\ PrivateTag \notin DOMAIN file.data

\* C1: a json run on a container lacking element (0025,101b) ends with exit
\* status 1 and the message about the missing element on stderr, and no step
\* of the run creates or truncates the output path.
JsonMissingElementWritesNothing ==
    /\ [](algorithm = "json" /\ pc = "done" /\ LacksElement(disk["d"])
            => exit = 1 /\ stderr = <<MissingElementMsg>>)
    /\ [][algorithm = "json" /\ LacksElement(disk["d"]) => disk'["j"] = disk["j"]]_vars

RefStageDone == pc \in {"diff_test", "diff_print"} \/ protocol_r # <<>>

TestStageDone == pc = "diff_print" \/ protocol_t # <<>>

\* C8: in a diff run the reference mapping is built by dcmread and
\* extract_protocol when the reference file is a container and by
\* str_to_dict_lx exactly when it is not; the test file only ever goes
\* through dcmread and extract_protocol.
DiffReferenceSniffed ==
    algorithm = "diff" =>
        /\ Called("dcmread", "r") \/ Called("extract_protocol", "r")
              => is_dicom(disk["r"])
        /\ Called("str_to_dict_lx", "r") <=> (~is_dicom(disk["r"]) /\ pc \notin {"main", "diff_ref_lx"})
        /\ RefStageDone /\ is_dicom(disk["r"])
              => /\ Called("extract_protocol", "r")
                 /\ protocol_r = extract_protocol(disk["r"].data).ret
        /\ RefStageDone /\ ~is_dicom(disk["r"])
              => protocol_r = str_to_dict_lx(disk["r"].data).ret
        /\ \A i \in DOMAIN trace :
              trace[i][2] = "t" => trace[i][1] \in {"dcmread", "extract_protocol"}
        /\ TestStageDone
              => /\ Called("dcmread", "t") /\ Called("extract_protocol", "t")
                 /\ protocol_t = extract_protocol(disk["t"].data).ret

\* a diff run ended with the reference parsed as an LxProtocol text, the test
\* read as a container, and differences printed
DiffReferenceSniffedWitness ==
    /\ algorithm = "diff" /\ pc = "done" /\ exit = 0
    /\ ~is_dicom(disk["r"])
    /\ Called("str_to_dict_lx", "r") /\ Called("extract_protocol", "t")
    /\ Len(protocol_r[1]) = 2
    /\ stdout # <<>>

\* C10: in a diff run the reference is extracted before the test,
\* diff_protocols runs only after both extractions returned, and when either
\* container lacks element (0025,101b) the run ends with exit status 1 and
\* nothing on standard output.
DiffAllOrNothing ==
    algorithm = "diff" =>
        /\ protocol_t # <<>> => protocol_r # <<>>
        /\ \A i, j \in DOMAIN trace :
              trace[i][2] = "r" /\ trace[j][2] = "t" => i < j
        /\ \A i \in DOMAIN trace :
              trace[i][1] = "diff_protocols"
                  => i = Len(trace) /\ protocol_r # <<>> /\ protocol_t # <<>>
        /\ stdout # <<>> => Called("diff_protocols", "r,t")
        /\ pc = "done" /\ (LacksElement(disk["r"]) \/ LacksElement(disk["t"]))
              => exit = 1 /\ stdout = <<>>

\* a diff run whose reference was extracted and differs from anything, ended
\* by the test container lacking the element
DiffAllOrNothingWitness ==
    /\ algorithm = "diff" /\ pc = "done"
    /\ protocol_r # <<>> /\ protocol_r[1] # <<>>
    /\ LacksElement(disk["t"])
    /\ exit = 1 /\ stdout = <<>> /\ stderr = <<MissingElementMsg>>

-----------------------------------------------------------------------------
(* Properties of the parsers (SpecParse) *)

Called_dialect == result[1]

Outcome == result[2]

\* the lines of s that are not empty
NonEmpty == {i \in DOMAIN src : src[i].text # <<>>}

FirstOcc(I, n) == CHOOSE i \in I : src[i].name = n /\ \A j \in I : src[j].name = n => i <= j

LastOcc(I, n) == CHOOSE i \in I : src[i].name = n /\ \A j \in I : src[j].name = n => j <= i

\* d is the mapping of the lines I of src: its keys are their names, each once,
\* in the order of their first occurrence, each with the value of its last
MappingOf(d, I) ==
    /\ Keys(d) = {src[i].name : i \in I}
    /\ \A i, j \in DOMAIN d : d[i][1] = d[j][1] => i = j
    /\ \A i \in DOMAIN d : d[i][2] = src[LastOcc(I, d[i][1])].value
    /\ \A i, j \in DOMAIN d : i < j => FirstOcc(I, d[i][1]) < FirstOcc(I, d[j][1])

\* C6: for a text all of whose lines match the dialect of the parser called,
\* the parser returns the mapping whose keys are the names of the text, each
\* with the value of its last occurrence, ordered by first occurrence; N lines
\* with N distinct names give the N entries <<name, value>> in order.
ParseValidText ==
    (pc = "returned" /\ \A i \in DOMAIN src : src[i].dialect = Called_dialect)
        => /\ ~Outcome.raised
           /\ Len(Outcome.ret) = 1
           /\ MappingOf(Outcome.ret[1], DOMAIN src)
           /\ (\A i, j \in DOMAIN src : src[i].name = src[j].name => i = j)
                 => Outcome.ret[1] = [i \in DOMAIN src |-> <<src[i].name, src[i].value>>]

\* three valid lines, the third repeating the name of the first with another value
ParseValidTextWitness ==
    /\ pc = "returned" /\ Len(src) = 3
    /\ \A i \in DOMAIN src : src[i].dialect = Called_dialect
    /\ src[1].name = src[3].name /\ src[1].value # src[3].value
    /\ src[2].name # src[1].name
    /\ ~Outcome.raised
    /\ Outcome.ret[1] = <<<<src[1].name, src[3].value>>, <<src[2].name, src[2].value>>>>

\* C7: when some line of the text does not match the dialect of the parser
\* called, the call raises at the first such line and returns no mapping.
ParseFailsAtBadLine ==
    (pc = "returned" /\ \E i \in DOMAIN src : src[i].dialect # Called_dialect)
        => /\ Outcome.raised
           /\ Outcome.ret = <<>>
           /\ src[Outcome.line].dialect # Called_dialect
           /\ \A j \in 1..(Outcome.line - 1) : src[j].dialect = Called_dialect

\* two matching lines followed by a line that does not match
ParseFailsAtBadLineWitness ==
    /\ pc = "returned" /\ Len(src) = 3
    /\ src[1].dialect = Called_dialect /\ src[2].dialect = Called_dialect
    /\ src[3].dialect = "none" /\ src[3].text # <<>>
    /\ Outcome.raised /\ Outcome.line = 3 /\ Outcome.ret = <<>>

\* C9: a text whose non-empty lines all match the dialect of the parser called
\* and that has an empty line is parsed to the mapping of its non-empty
\* lines, without failure.
ParseSkipsEmptyLines ==
    (/\ pc = "returned"
     /\ \A i \in NonEmpty : src[i].dialect = Called_dialect
     /\ NonEmpty # DOMAIN src)
        => /\ ~Outcome.raised
           /\ Len(Outcome.ret) = 1
           /\ MappingOf(Outcome.ret[1], NonEmpty)

-----------------------------------------------------------------------------
(* Properties of diff_protocols (SpecDiff) *)

InBoth(r, t, k) == HasKey(r, k) /\ HasKey(t, k)

\* the keys of the union that are not equal on both sides
Differing(r, t) ==
    {k \in Keys(r) \cup Keys(t) : InBoth(r, t, k) => Get(r, k) # Get(t, k)}

Side(mark, k, v) == <<mark, " ">> \o k \o <<" ">> \o v

\* the three lines of the record of a differing key k
RecordFor(r, t, k) ==
    IF InBoth(r, t, k) THEN <<Side("<", k, Get(r, k)), Side(">", k, Get(t, k)), SEP>>
    ELSE IF HasKey(r, k) THEN <<Side("<", k, Get(r, k)), <<">">>, SEP>>
    ELSE <<<<"<">>, Side(">", k, Get(t, k)), SEP>>

NRecords == Len(stdout) \div 3

RecordAt(j) == SubSeq(stdout, 3 * j - 2, 3 * j)

\* C2: diff_protocols prints exactly one record per key of the union that is
\* not equal on both sides (changed, removed or added), and no other record.
DiffOneRecordPerDifference ==
    pc = "returned" =>
        LET r == protocol_r[1]
            t == protocol_t[1]
        IN  /\ Len(stdout) = 3 * Cardinality(Differing(r, t))
            /\ \A k \in Differing(r, t) :
                  Cardinality({j \in 1..NRecords : RecordAt(j) = RecordFor(r, t, k)}) = 1
            /\ \A j \in 1..NRecords :
                  \E k \in Differing(r, t) : RecordAt(j) = RecordFor(r, t, k)

\* an equal key, a changed key and an added key, or a removed one, at once
DiffOneRecordPerDifferenceWitness ==
    /\ pc = "returned" /\ NRecords = 3
    /\ LET r == protocol_r[1]
           t == protocol_t[1]
       IN  /\ \E k \in Keys(r) : InBoth(r, t, k) /\ Get(r, k) # Get(t, k)
           /\ \E k \in Keys(r) : ~HasKey(t, k)
           /\ \E k \in Keys(t) : ~HasKey(r, k)

Pos(d, k) == CHOOSE i \in DOMAIN d : d[i][1] = k

\* C3: every changed or removed record precedes every added record; changed
\* and removed records follow the order of r, added records the order of t.
DiffRecordOrder ==
    pc = "returned" =>
        LET r == protocol_r[1]
            t == protocol_t[1]
            KeyAt(j) == CHOOSE k \in Differing(r, t) : RecordAt(j) = RecordFor(r, t, k)
            Added(j) == ~HasKey(r, KeyAt(j))
        IN  /\ \A j \in 1..NRecords :
                  \E k \in Differing(r, t) : RecordAt(j) = RecordFor(r, t, k)
            /\ \A i, j \in 1..NRecords :
                  i < j =>
                      /\ Added(i) => Added(j)
                      /\ ~Added(i) /\ ~Added(j) => Pos(r, KeyAt(i)) < Pos(r, KeyAt(j))
                      /\ Added(i) /\ Added(j) => Pos(t, KeyAt(i)) < Pos(t, KeyAt(j))

\* two records driven by r followed by two added records
DiffRecordOrderWitness ==
    /\ pc = "returned" /\ NRecords = 4
    /\ HasKey(protocol_r[1], <<"B">>) /\ HasKey(protocol_r[1], <<"A">>)
    /\ Pos(protocol_r[1], <<"B">>) < Pos(protocol_r[1], <<"A">>)
    /\ HasKey(protocol_t[1], <<"D">>) /\ HasKey(protocol_t[1], <<"C">>)
    /\ Pos(protocol_t[1], <<"D">>) < Pos(protocol_t[1], <<"C">>)
    /\ stdout[2] = <<">">> /\ stdout[10] = <<"<">>

\* C4: the output is a sequence of three-line records, each ending with the
\* line "---": "< KEY REF" and "> KEY TEST" for a changed key, "< KEY REF" and
\* a bare ">" for a removed key, a bare "<" and "> KEY TEST" for an added key.
DiffRecordShape ==
    pc = "returned" =>
        LET r == protocol_r[1]
            t == protocol_t[1]
        IN  /\ Len(stdout) % 3 = 0
            /\ \A j \in 1..NRecords :
                  LET a == stdout[3 * j - 2]
                      b == stdout[3 * j - 1]
                      c == stdout[3 * j]
                  IN  /\ c = <<"-", "-", "-">>
                      /\ \/ \E k \in Keys(r) \cap Keys(t) :
                               /\ a = <<"<", " ">> \o k \o <<" ">> \o Get(r, k)
                               /\ b = <<">", " ">> \o k \o <<" ">> \o Get(t, k)
                         \/ \E k \in Keys(r) \ Keys(t) :
                               /\ a = <<"<", " ">> \o k \o <<" ">> \o Get(r, k)
                               /\ b = <<">">>
                         \/ \E k \in Keys(t) \ Keys(r) :
                               /\ a = <<"<">>
                               /\ b = <<">", " ">> \o k \o <<" ">> \o Get(t, k)

\* a changed record followed by an added record
DiffRecordShapeWitness ==
    /\ pc = "returned"
    /\ stdout = << <<"<", " ", "A", " ", "1">>, <<">", " ", "A", " ", "2">>, SEP,
                   <<"<">>, <<">", " ", "B", " ", "1">>, SEP >>

\* C5: diff_protocols(X, X) prints nothing.
DiffSelfEmpty ==
    (pc = "returned" /\ protocol_r = protocol_t) => stdout = <<>>

\* a mapping of two entries compared with itself
DiffSelfEmptyWitness ==
    /\ pc = "returned" /\ protocol_r = protocol_t
    /\ Len(protocol_r[1]) >= 2
    /\ stdout = <<>>

====
